---------------------------- MODULE Spec2Model ----------------------------
(***************************************************************************)
(* The mouse control facade of the micromouse simulator                    *)
(* (src/src/sim/MouseInterface.cpp) as a state machine.                    *)
(*                                                                         *)
(* Two execution contexts share the state: the algorithm context, which    *)
(* calls the facade (one call at a time; a motion call is a loop whose     *)
(* position is pc), and the simulation context, which integrates the wheel *)
(* speeds into the pose (Integrate) and toggles the paused flag.           *)
(*                                                                         *)
(* Lengths are integers (one unit = the model's length resolution) and     *)
(* angles are integer degrees in 0..359, counter-clockwise from NORTH:     *)
(* 0 = NORTH, 90 = WEST, 180 = SOUTH, 270 = EAST (MouseInterface.cpp       *)
(* lines 304, 314, 324, 334).                                              *)
(***************************************************************************)
EXTENDS Integers, Sequences, FiniteSets, TLC

\* ------------------------------------------------------------- bounds
MazeWidth == 2
MazeHeight == 2
\* the largest distance, in length units, the integrator covers in one step
MaxStep == 2
\* the largest rotation, in units of RotUnit, the integrator covers in one step
MaxRotStep == 2
\* how many facade calls of a run write to the MazeGraphic
MaxAnnotations == 2
\* how many input buttons are pressed and not yet acknowledged at a time
MaxPressed == 2

\* ------------------------------------------------- parameters (P(), S())
WallLength == 1
WallWidth == 1
SimSpeed == 1
\* angular resolution of the modelled integrator, in degrees
RotUnit == 30

TileLength == WallLength + WallWidth

\* Mouse::getInitialTranslation(): the centre of tile (0, 0)
InitialTranslation == <<TileLength \div 2, TileLength \div 2>>

Directions == {"NORTH", "EAST", "SOUTH", "WEST"}

Cells == (0 .. MazeWidth - 1) \X (0 .. MazeHeight - 1)

\* ------------------------------------------------------------ variables
VARIABLES
    interfaceType,   \* S()->interfaceType(): "DISCRETE" or "CONTINUOUS"
    running,         \* FALSE once SimUtilities::quit() or a failed ASSERT ended the run
    report,          \* what the run printed when it ended: "none" or [fn, required]
    crashed,         \* S()->crashed()
    paused,          \* S()->paused()
    translation,     \* Mouse: current translation <<x, y>>
    rotation,        \* Mouse: current rotation, degrees
    wheels,          \* Mouse: commanded wheel speeds <<left, right>>, in half rad/s
    walls,           \* Maze: walls[<<x, y>>][d]
    pc,              \* position of the algorithm context inside a motion call
    stack,           \* the facade functions in progress, outermost first
    dest,            \* destinationTranslation / destinationRotation of the motion call
    heading,         \* the case the motion call's switch selected
    callStart,       \* pose when the outermost call in progress (or the last one) began
    teleports,       \* teleport targets issued by the outermost call, in order
    mon,             \* per motion call: what the call has commanded so far
    lastCall,        \* the facade function the algorithm called last, "none" at start
    result,          \* what the last call returned, "none" for a void call
    param,           \* P(): the configuration flags
    gWalls,          \* MazeGraphic: declared walls, "undeclared" / "wall" / "nowall"
    gColor,          \* MazeGraphic: tile colours
    gFog,            \* MazeGraphic: tile fogginess
    gText,           \* MazeGraphic: tile text
    tilesWithColor,  \* m_tilesWithColor
    inputButtons,    \* S()->inputButtonWasPressed(k), k in 0..9
    annotations,     \* how many facade calls have written to the MazeGraphic
    currentViewPolygon, \* Sensor: the view polygon of the last updateReading()
    trail            \* in an observed run: the turns made in a row and the wall queries
                     \* answered around them

mouseVars == <<translation, rotation, wheels>>
callVars == <<pc, stack, dest, heading, callStart, teleports, mon, trail>>
simVars == <<interfaceType, running, report, crashed, paused>>
graphicVars == <<gWalls, gColor, gFog, gText, tilesWithColor>>
envVars == <<walls, param, currentViewPolygon, inputButtons, annotations>>
vars == <<interfaceType, running, report, crashed, paused, translation, rotation,
          wheels, walls, pc, stack, dest, heading, callStart, teleports, mon,
          lastCall, result, param, gWalls, gColor, gFog, gText, tilesWithColor,
          inputButtons, annotations, currentViewPolygon, trail>>

\* ------------------------------------------------------------ the maze
\* Maze family: the outer border present or not, the interior walls between columns
\* present on the rows above row 0 or not, the interior walls between rows present
\* on the columns right of column 0 or not.  Both halves of a wall agree.
MazeWall(border, vw, hw, c, d) ==
    CASE d = "NORTH" -> IF c[2] = MazeHeight - 1 THEN border ELSE hw /\ c[1] > 0
      [] d = "SOUTH" -> IF c[2] = 0 THEN border ELSE hw /\ c[1] > 0
      [] d = "EAST"  -> IF c[1] = MazeWidth - 1 THEN border ELSE vw /\ c[2] > 0
      [] d = "WEST"  -> IF c[1] = 0 THEN border ELSE vw /\ c[2] > 0

Maze(border, vw, hw) == [c \in Cells |-> [d \in Directions |-> MazeWall(border, vw, hw, c, d)]]

Mazes == {Maze(TRUE, FALSE, FALSE), Maze(TRUE, TRUE, FALSE), Maze(TRUE, FALSE, TRUE),
          Maze(FALSE, FALSE, FALSE)}

\* ------------------------------------------------------ units and angles
\* Degrees arithmetic stays in [0, 360)
Norm(a) == a % 360

Sign(n) == IF n > 0 THEN 1 ELSE IF n < 0 THEN -1 ELSE 0

\* Mouse::getDiscretizedTranslation(): floor of the position over the tile length
DiscretizedTranslationOf(t) == <<t[1] \div TileLength, t[2] \div TileLength>>

\* Mouse::getDiscretizedRotation(): the nearest cardinal direction
DiscretizedRotationOf(r) ==
    LET k == ((Norm(r) + 45) \div 90) % 4
    IN  CASE k = 0 -> "NORTH" [] k = 1 -> "WEST" [] k = 2 -> "SOUTH" [] k = 3 -> "EAST"

getDiscretizedTranslation == DiscretizedTranslationOf(translation)
getDiscretizedRotation == DiscretizedRotationOf(rotation)

\* faulty variant: the bounds check admits the row and the column past the maze
withinMazeInclusive(x, y) == 0 <= x /\ x <= MazeWidth /\ 0 <= y /\ y <= MazeHeight

withinMaze(x, y) == 0 <= x /\ x < MazeWidth /\ 0 <= y /\ y < MazeHeight

\* wheel speed commands
Stopped == <<0, 0>>
Forward == <<-(2 * SimSpeed), 2 * SimSpeed>>
SpinRight == <<SimSpeed, SimSpeed>>
SpinLeft == <<-SimSpeed, -SimSpeed>>

\* ----------------------------------------------------- the kinematic mouse
\* unit vector (component signs) of the heading r
HeadingVector(r) ==
    <<IF r \in 1 .. 179 THEN -1 ELSE IF r \in 181 .. 359 THEN 1 ELSE 0,
      IF r < 90 \/ r > 270 THEN 1 ELSE IF r \in 91 .. 269 THEN -1 ELSE 0>>

\* the region the modelled integrator keeps the mouse in: the maze and, around it,
\* as far as a move off its edge can get before its loop ends
Reach == InitialTranslation[1] - 1 + MaxStep
InArena(t) ==
    /\ t[1] \in -Reach .. MazeWidth * TileLength + Reach
    /\ t[2] \in -Reach .. MazeHeight * TileLength + Reach

\* One step of the simulation context: opposite wheel speeds move the mouse along
\* its heading, equal positive speeds turn it right (the angle decreases), equal
\* negative speeds turn it left.
Integrate ==
    /\ running
    /\ wheels # Stopped
    /\ \E d \in 1 .. MaxStep, k \in 1 .. MaxRotStep :
         LET v == Sign(wheels[2] - wheels[1])
             w == -Sign(wheels[1] + wheels[2])
             h == HeadingVector(rotation)
             t == <<translation[1] + d * v * h[1], translation[2] + d * v * h[2]>>
         IN  /\ InArena(t)
             /\ translation' = t
             /\ rotation' = Norm(rotation + w * k * RotUnit)
    /\ UNCHANGED <<wheels, lastCall, result>>
    /\ UNCHANGED <<simVars, callVars, graphicVars, envVars>>

\* the simulation context pauses or resumes the run
TogglePause ==
    /\ running
    /\ paused' = ~paused
    /\ UNCHANGED <<interfaceType, running, report, crashed, lastCall, result>>
    /\ UNCHANGED <<mouseVars, callVars, graphicVars, envVars>>

\* --------------------------------------------------------- the overlay
\* the cells the graphic can be addressed at: the maze and one ring around it
GraphicCells == (-1 .. MazeWidth) \X (-1 .. MazeHeight)

CharToDirection(c) ==
    CASE c = "n" -> "NORTH" [] c = "e" -> "EAST" [] c = "s" -> "SOUTH" [] c = "w" -> "WEST"
DirectionChars == {"n", "e", "s", "w"}
DirectionToChar(d) ==
    CASE d = "NORTH" -> "n" [] d = "EAST" -> "e" [] d = "SOUTH" -> "s" [] d = "WEST" -> "w"

\* MazeGraphic::declareWall / undeclareWall
GraphicDeclareWall(g, c, d, wallExists) ==
    [g EXCEPT ![c][d] = IF wallExists THEN "wall" ELSE "nowall"]
GraphicUndeclareWall(g, c, d) == [g EXCEPT ![c][d] = "undeclared"]

\* faulty variant: the far edges of the maze are taken to have a tile beyond them
hasOpposingWallPastEdge(x, y, d) ==
    CASE d = "NORTH" -> y < MazeHeight
      [] d = "EAST"  -> x < MazeWidth
      [] d = "SOUTH" -> y > 0
      [] d = "WEST"  -> x > 0

hasOpposingWall(x, y, d) ==
    CASE d = "NORTH" -> y < MazeHeight - 1
      [] d = "EAST"  -> x < MazeWidth - 1
      [] d = "SOUTH" -> y > 0
      [] d = "WEST"  -> x > 0

getOpposingWall(x, y, d) ==
    CASE d = "NORTH" -> <<<<x, y + 1>>, "SOUTH">>
      [] d = "EAST"  -> <<<<x + 1, y>>, "WEST">>
      [] d = "SOUTH" -> <<<<x, y - 1>>, "NORTH">>
      [] d = "WEST"  -> <<<<x - 1, y>>, "EAST">>

\* MouseInterface::declareWall as a function of the declared walls
DeclareWallOn(g, x, y, c, wallExists) ==
    IF ~withinMaze(x, y) THEN g
    ELSE IF c \notin DirectionChars THEN g
    ELSE LET d == CharToDirection(c)
             g1 == GraphicDeclareWall(g, <<x, y>>, d, wallExists)
         IN  IF param.declareBothWallHalves /\ hasOpposingWall(x, y, d)
             THEN LET o == getOpposingWall(x, y, d)
                  IN  GraphicDeclareWall(g1, o[1], o[2], wallExists)
             ELSE g1

\* MouseInterface::undeclareWall as a function of the declared walls
UndeclareWallOn(g, x, y, c) ==
    IF ~withinMaze(x, y) THEN g
    ELSE IF c \notin DirectionChars THEN g
    ELSE LET d == CharToDirection(c)
             g1 == GraphicUndeclareWall(g, <<x, y>>, d)
         IN  IF param.declareBothWallHalves /\ hasOpposingWall(x, y, d)
             THEN LET o == getOpposingWall(x, y, d)
                  IN  GraphicUndeclareWall(g1, o[1], o[2])
             ELSE g1

\* ------------------------------------------------------- ending the run
\* SimUtilities::quit() after the mode error was printed
NoReport == [fn |-> "none", required |-> "none"]

Quit(fn, required) ==
    /\ running' = FALSE
    /\ report' = [fn |-> fn, required |-> required]

\* faulty variant: the check compares with the wrong interface type
ensureDiscreteComparesContinuous == interfaceType = "CONTINUOUS"

ensureDiscreteInterface == interfaceType = "DISCRETE"
ensureContinuousInterface == interfaceType = "CONTINUOUS"

\* a call that ends the run on a mode violation changes nothing else
ModeViolation(fn, required) ==
    /\ Quit(fn, required)
    /\ lastCall' = fn
    /\ result' = "none"
    /\ UNCHANGED <<interfaceType, crashed, paused>>
    /\ UNCHANGED <<mouseVars, callVars, graphicVars, envVars>>

\* the ASSERT of isWall fails: the run ends
AssertFailure(fn) ==
    /\ Quit("isWall", "ASSERT")
    /\ lastCall' = fn
    /\ result' = "none"
    /\ UNCHANGED <<interfaceType, crashed, paused>>
    /\ UNCHANGED <<mouseVars, callVars, graphicVars, envVars>>

\* ------------------------------------------------------------ wall queries
\* the direction wallRight / wallLeft look at
RightOf(d) ==
    CASE d = "NORTH" -> "EAST" [] d = "EAST" -> "SOUTH"
      [] d = "SOUTH" -> "WEST" [] d = "WEST" -> "NORTH"
\* faulty variant: wallLeft looks where wallRight looks
LeftOfMirrored(d) == RightOf(d)

LeftOf(d) ==
    CASE d = "NORTH" -> "WEST" [] d = "EAST" -> "NORTH"
      [] d = "SOUTH" -> "EAST" [] d = "WEST" -> "SOUTH"

\* MouseInterface::isWall: its assertion, its value and its effect on the overlay
isWallAsserts(position) == withinMaze(position[1], position[2])
isWallValue(position, d) == walls[position][d]
isWallDeclares(g, position, d) ==
    IF param.discreteInterfaceDeclareWallOnRead
    THEN DeclareWallOn(g, position[1], position[2], DirectionToChar(d),
                       isWallValue(position, d))
    ELSE g

\* the direction each query passes to isWall
QueryDirection(fn) ==
    CASE fn = "wallFront" -> getDiscretizedRotation
      [] fn = "wallRight" -> RightOf(getDiscretizedRotation)
      [] fn = "wallLeft"  -> LeftOf(getDiscretizedRotation)

BoolResult(b) == IF b THEN "true" ELSE "false"

\* what an observed run keeps of its calls: the turns made in a row, as long as they
\* begin one of the patterns looked for, the pose at which they began, what
\* wallRight() and wallLeft() returned since the last turn, and what they had
\* returned just before it
TurnPatterns ==
    {<<"turnLeft", "turnRight">>, <<"turnRight", "turnRight", "turnRight", "turnRight">>}

Unobserved ==
    [on |-> FALSE, origin |-> [t |-> <<0, 0>>, r |-> 0], turns |-> <<>>,
     right |-> "none", left |-> "none", rightBefore |-> "none", leftBefore |-> "none"]
NoTurns == [Unobserved EXCEPT !.on = TRUE]

TrailAfter(fn, res) ==
    IF ~trail.on THEN trail
    ELSE IF fn \in {"turnRight", "turnLeft"}
    THEN LET longer == Append(trail.turns, fn)
             fresh == \/ trail.turns = <<>>
                      \/ \A p \in TurnPatterns :
                            Len(p) < Len(longer) \/ SubSeq(p, 1, Len(longer)) # longer
         IN  [on |-> TRUE,
              origin |-> IF fresh THEN [t |-> translation, r |-> rotation] ELSE trail.origin,
              turns |-> IF fresh THEN <<fn>> ELSE longer,
              right |-> "none", left |-> "none",
              rightBefore |-> trail.right, leftBefore |-> trail.left]
    ELSE IF fn = "wallRight" THEN [trail EXCEPT !.right = res]
    ELSE IF fn = "wallLeft" THEN [trail EXCEPT !.left = res]
    ELSE IF fn \in {"moveForward", "turnAround", "resetPosition"} THEN NoTurns
    ELSE trail

\* a call that is no motion call runs in one step
AtomicCall(fn, res) ==
    /\ lastCall' = fn
    /\ result' = res
    /\ trail' = TrailAfter(fn, res)
    /\ callStart' = [t |-> <<0, 0>>, r |-> 0]
    /\ teleports' = <<>>
    /\ mon' = [exitSeen |-> FALSE, last |-> "none", tele |-> 0, late |-> FALSE,
               early |-> FALSE]
    /\ UNCHANGED <<pc, stack, dest, heading>>

\* the budget of MazeGraphic writes: a call that writes needs one left
CanAnnotate == annotations < MaxAnnotations
Annotated(wrote) == annotations' = IF wrote THEN annotations + 1 ELSE annotations
ReadDeclares == param.discreteInterfaceDeclareWallOnRead

\* wallFront, wallRight, wallLeft
WallQuery(fn) ==
    /\ running
    /\ pc = "idle"
    /\ IF ~ensureDiscreteInterface THEN ModeViolation(fn, "DISCRETE")
       ELSE IF ~isWallAsserts(getDiscretizedTranslation) THEN AssertFailure(fn)
       ELSE /\ ReadDeclares => CanAnnotate
            /\ AtomicCall(fn, BoolResult(isWallValue(getDiscretizedTranslation,
                                                     QueryDirection(fn))))
            /\ gWalls' = isWallDeclares(gWalls, getDiscretizedTranslation,
                                        QueryDirection(fn))
            /\ Annotated(ReadDeclares)
            /\ UNCHANGED <<simVars, mouseVars>>
            /\ UNCHANGED <<walls, param, currentViewPolygon, inputButtons>>
            /\ UNCHANGED <<gColor, gFog, gText, tilesWithColor>>

\* ------------------------------------------------------------ motion calls
NoDest == [t |-> <<0, 0>>, r |-> 0]
NoMon == [exitSeen |-> FALSE, last |-> "none", tele |-> 0, late |-> FALSE, early |-> FALSE]

\* Mouse::setWheelSpeeds, and what the call in progress is seen to command
MouseSetWheelSpeeds(w) ==
    /\ wheels' = w
    /\ mon' = [mon EXCEPT !.last = IF w = Stopped THEN "zero" ELSE "drive",
                          !.late = mon.late \/ (w # Stopped /\ (mon.exitSeen \/ mon.tele > 0))]

\* Mouse::teleport
MouseTeleport(t, r) ==
    /\ translation' = t
    /\ rotation' = r
    /\ teleports' = Append(teleports, [t |-> t, r |-> r])
    /\ mon' = [mon EXCEPT !.last = "teleport",
                          !.tele = IF mon.tele < 2 THEN mon.tele + 1 ELSE 2,
                          !.early = mon.early \/ ~mon.exitSeen \/ mon.last # "zero"]

\* faulty variant: the canonical angles of EAST and WEST are exchanged
MoveForwardDestinationSwapped(cell, d) ==
    LET currentX == TileLength * cell[1] + InitialTranslation[1]
        currentY == TileLength * cell[2] + InitialTranslation[2]
    IN  CASE d = "NORTH" -> [t |-> <<currentX, currentY + TileLength>>, r |-> 0]
          [] d = "EAST"  -> [t |-> <<currentX + TileLength, currentY>>, r |-> 90]
          [] d = "SOUTH" -> [t |-> <<currentX, currentY - TileLength>>, r |-> 180]
          [] d = "WEST"  -> [t |-> <<currentX - TileLength, currentY>>, r |-> 270]

\* moveForward: the destination one tile ahead of the cell, at the canonical angle
MoveForwardDestination(cell, d) ==
    LET currentX == TileLength * cell[1] + InitialTranslation[1]
        currentY == TileLength * cell[2] + InitialTranslation[2]
    IN  CASE d = "NORTH" -> [t |-> <<currentX, currentY + TileLength>>, r |-> 0]
          [] d = "EAST"  -> [t |-> <<currentX + TileLength, currentY>>, r |-> 270]
          [] d = "SOUTH" -> [t |-> <<currentX, currentY - TileLength>>, r |-> 180]
          [] d = "WEST"  -> [t |-> <<currentX - TileLength, currentY>>, r |-> 90]

TurnRightDestination == [t |-> translation, r |-> Norm(rotation - 90)]
\* faulty variant: turnLeft heads for the rotation a quarter turn clockwise
TurnLeftDestinationClockwise == [t |-> translation, r |-> Norm(rotation - 90)]

TurnLeftDestination == [t |-> translation, r |-> Norm(rotation + 90)]

Destination(fn) ==
    CASE fn = "moveForward" ->
            MoveForwardDestination(getDiscretizedTranslation, getDiscretizedRotation)
      [] fn = "turnRight" -> TurnRightDestination
      [] fn = "turnLeft" -> TurnLeftDestination

\* faulty variant: the loop runs until the position equals the destination
MoveForwardContinuesUntilEqual(h, d) ==
    IF h \in {"NORTH", "SOUTH"} THEN translation[2] # d.t[2] ELSE translation[1] # d.t[1]

\* the while conditions of moveForward
MoveForwardContinues(h, d) ==
    CASE h = "NORTH" -> translation[2] < d.t[2]
      [] h = "EAST"  -> translation[1] < d.t[1]
      [] h = "SOUTH" -> d.t[2] < translation[2]
      [] h = "WEST"  -> d.t[1] < translation[1]

\* the while conditions of turnRight
TurnRightContinues(h, d) ==
    CASE h = "NORTH" -> d.r < rotation \/ rotation < 180
      [] h \in {"EAST", "SOUTH"} -> d.r < rotation
      [] h = "WEST"  -> rotation < 180

\* the while conditions of turnLeft
TurnLeftContinues(h, d) ==
    CASE h = "NORTH" -> rotation < d.r \/ 180 < rotation
      [] h = "EAST"  -> 180 < rotation
      [] h \in {"SOUTH", "WEST"} -> rotation < d.r

LoopContinues(fn) ==
    CASE fn = "moveForward" -> MoveForwardContinues(heading, dest)
      [] fn = "turnRight" -> TurnRightContinues(heading, dest)
      [] fn = "turnLeft" -> TurnLeftContinues(heading, dest)

\* the wheel speeds each loop commands
DriveCommand(fn) ==
    CASE fn = "moveForward" -> Forward
      [] fn = "turnRight" -> SpinRight
      [] fn = "turnLeft" -> SpinLeft

Top == stack[Len(stack)][1]

\* a motion function is entered: its locals are set and its loop is reached
EnterMotion(fn, newStack) ==
    /\ dest' = Destination(fn)
    /\ heading' = getDiscretizedRotation
    /\ pc' = "loop"
    /\ stack' = newStack
    /\ mon' = NoMon

\* the outermost call starts: pose and teleports are recorded from here
BeginCall(fn) ==
    /\ lastCall' = fn
    /\ result' = "none"
    /\ trail' = TrailAfter(fn, "none")
    /\ callStart' = [t |-> translation, r |-> rotation]
    /\ teleports' = <<>>

\* faulty variant: the crashed flag is not set
CrashIntoForgotten == crashed

\* moveForward with a wall in front: the crashed flag is set if it is not yet
CrashInto == IF ~crashed THEN TRUE ELSE crashed

\* faulty variant: a crash recorded earlier also keeps moveForward from moving
MoveForwardBlockedOrCrashed ==
    isWallValue(getDiscretizedTranslation, getDiscretizedRotation) \/ crashed

\* moveForward: the value of its call of wallFront()
\* faulty variant: moveForward looks for the wall to the right of the mouse
MoveForwardBlockedLooksRight ==
    isWallValue(getDiscretizedTranslation, RightOf(getDiscretizedRotation))

MoveForwardBlocked == isWallValue(getDiscretizedTranslation, getDiscretizedRotation)

MoveForwardCall ==
    /\ running
    /\ pc = "idle"
    /\ IF ~ensureDiscreteInterface THEN ModeViolation("moveForward", "DISCRETE")
       ELSE IF ~isWallAsserts(getDiscretizedTranslation) THEN AssertFailure("moveForward")
       ELSE /\ ReadDeclares => CanAnnotate
            /\ BeginCall("moveForward")
            /\ gWalls' = isWallDeclares(gWalls, getDiscretizedTranslation,
                                        getDiscretizedRotation)
            /\ Annotated(ReadDeclares)
            /\ IF MoveForwardBlocked
               THEN /\ crashed' = CrashInto
                    /\ mon' = NoMon
                    /\ UNCHANGED <<pc, stack, dest, heading>>
               ELSE /\ EnterMotion("moveForward", <<<<"moveForward", 0>>>>)
                    /\ UNCHANGED crashed
            /\ UNCHANGED <<interfaceType, running, report, paused>>
            /\ UNCHANGED <<mouseVars, walls, param, currentViewPolygon, inputButtons>>
            /\ UNCHANGED <<gColor, gFog, gText, tilesWithColor>>

\* turnRight and turnLeft called by the algorithm
TurnCall(fn) ==
    /\ running
    /\ pc = "idle"
    /\ IF ~ensureDiscreteInterface THEN ModeViolation(fn, "DISCRETE")
       ELSE /\ BeginCall(fn)
            /\ EnterMotion(fn, <<<<fn, 0>>>>)
            /\ UNCHANGED <<simVars, mouseVars, graphicVars, envVars>>

\* turnAround: the first turnRight() is entered
TurnAroundCall ==
    /\ running
    /\ pc = "idle"
    /\ IF ~ensureDiscreteInterface THEN ModeViolation("turnAround", "DISCRETE")
       ELSE /\ BeginCall("turnAround")
            /\ EnterMotion("turnRight", <<<<"turnAround", 0>>, <<"turnRight", 1>>>>)
            /\ UNCHANGED <<simVars, mouseVars, graphicVars, envVars>>

\* faulty variant: the second call of turnAround is turnLeft()
TurnAroundSecondTurnsLeft ==
    /\ running
    /\ pc = "call2"
    /\ EnterMotion("turnLeft", <<<<"turnAround", 0>>, <<"turnLeft", 2>>>>)
    /\ UNCHANGED <<callStart, trail, teleports, lastCall, result>>
    /\ UNCHANGED <<simVars, mouseVars, graphicVars, envVars>>

\* turnAround: the second turnRight() is entered
TurnAroundSecond ==
    /\ running
    /\ pc = "call2"
    /\ EnterMotion("turnRight", <<<<"turnAround", 0>>, <<"turnRight", 2>>>>)
    /\ UNCHANGED <<callStart, trail, teleports, lastCall, result>>
    /\ UNCHANGED <<simVars, mouseVars, graphicVars, envVars>>

\* the while condition is evaluated
LoopTest ==
    /\ running
    /\ pc = "loop"
    /\ IF LoopContinues(Top)
       THEN pc' = "checkPaused" /\ UNCHANGED mon
       ELSE pc' = "stop" /\ mon' = [mon EXCEPT !.exitSeen = TRUE]
    /\ UNCHANGED <<stack, dest, heading, callStart, trail, teleports, lastCall, result>>
    /\ UNCHANGED <<simVars, mouseVars, graphicVars, envVars>>

\* faulty variant: checkPaused waits without zeroing the wheels
CheckPausedKeepsSpeeds ==
    /\ running
    /\ pc = "checkPaused"
    /\ pc' = IF paused THEN "pausedWait" ELSE "drive"
    /\ UNCHANGED <<wheels, mon, translation, rotation>>
    /\ UNCHANGED <<stack, dest, heading, callStart, trail, teleports, lastCall, result>>
    /\ UNCHANGED <<simVars, graphicVars, envVars>>

\* checkPaused: when paused, the wheels are zeroed and the wait starts
CheckPaused ==
    /\ running
    /\ pc = "checkPaused"
    /\ IF paused
       THEN MouseSetWheelSpeeds(Stopped) /\ pc' = "pausedWait"
       ELSE pc' = "drive" /\ UNCHANGED <<wheels, mon>>
    /\ UNCHANGED <<translation, rotation>>
    /\ UNCHANGED <<stack, dest, heading, callStart, trail, teleports, lastCall, result>>
    /\ UNCHANGED <<simVars, graphicVars, envVars>>

\* checkPaused: the wait ends once the run is no longer paused
PausedWait ==
    /\ running
    /\ pc = "pausedWait"
    /\ ~paused
    /\ pc' = "drive"
    /\ UNCHANGED <<stack, dest, heading, callStart, trail, teleports, mon, lastCall, result>>
    /\ UNCHANGED <<simVars, mouseVars, graphicVars, envVars>>

\* the loop body commands its wheel speeds
Drive ==
    /\ running
    /\ pc = "drive"
    /\ MouseSetWheelSpeeds(DriveCommand(Top))
    /\ pc' = "sleep"
    /\ UNCHANGED <<translation, rotation>>
    /\ UNCHANGED <<stack, dest, heading, callStart, trail, teleports, lastCall, result>>
    /\ UNCHANGED <<simVars, graphicVars, envVars>>

\* the loop body sleeps one tick
Sleep ==
    /\ running
    /\ pc = "sleep"
    /\ pc' = "loop"
    /\ UNCHANGED <<stack, dest, heading, callStart, trail, teleports, mon, lastCall, result>>
    /\ UNCHANGED <<simVars, mouseVars, graphicVars, envVars>>

\* after the loop: the wheels are zeroed
\* faulty variant: the loop's exit goes to the teleport with the wheels still driven
StopWheelsSkipped ==
    /\ running
    /\ pc = "stop"
    /\ pc' = "teleport"
    /\ UNCHANGED <<stack, dest, heading, callStart, trail, teleports, mon, lastCall, result>>
    /\ UNCHANGED <<simVars, mouseVars, graphicVars, envVars>>

\* faulty variant: only the turns zero the wheels after their loop
StopWheelsAfterTurnsOnly ==
    /\ running
    /\ pc = "stop"
    /\ IF Top = "moveForward" THEN UNCHANGED <<wheels, mon>> ELSE MouseSetWheelSpeeds(Stopped)
    /\ pc' = "teleport"
    /\ UNCHANGED <<translation, rotation>>
    /\ UNCHANGED <<stack, dest, heading, callStart, trail, teleports, lastCall, result>>
    /\ UNCHANGED <<simVars, graphicVars, envVars>>

StopWheels ==
    /\ running
    /\ pc = "stop"
    /\ MouseSetWheelSpeeds(Stopped)
    /\ pc' = "teleport"
    /\ UNCHANGED <<translation, rotation>>
    /\ UNCHANGED <<stack, dest, heading, callStart, trail, teleports, lastCall, result>>
    /\ UNCHANGED <<simVars, graphicVars, envVars>>

\* where the call continues once the motion function on top returns
ReturnPc == IF Len(stack) > 1 /\ stack[Len(stack)][2] = 1 THEN "call2" ELSE "idle"
ReturnStack == IF Len(stack) > 1 /\ stack[Len(stack)][2] = 1 THEN SubSeq(stack, 1, 1) ELSE <<>>

\* faulty variant: the function returns without the teleport
ReturnsWithoutTeleport ==
    /\ running
    /\ pc = "teleport"
    /\ pc' = ReturnPc
    /\ stack' = ReturnStack
    /\ dest' = NoDest
    /\ heading' = "none"
    /\ UNCHANGED <<translation, rotation, teleports, mon>>
    /\ UNCHANGED <<wheels, callStart, trail, lastCall, result>>
    /\ UNCHANGED <<simVars, graphicVars, envVars>>

\* after the loop: the mouse is teleported to the destination and the function returns
TeleportToDestination ==
    /\ running
    /\ pc = "teleport"
    /\ MouseTeleport(dest.t, dest.r)
    /\ pc' = ReturnPc
    /\ stack' = ReturnStack
    /\ dest' = NoDest
    /\ heading' = "none"
    /\ UNCHANGED <<wheels, callStart, trail, lastCall, result>>
    /\ UNCHANGED <<simVars, graphicVars, envVars>>

\* --------------------------------------------- mode-agnostic operations
\* faulty variant: resetPosition also clears the crashed flag
ResetPositionClearsCrash ==
    /\ running
    /\ pc = "idle"
    /\ translation' = InitialTranslation
    /\ rotation' = 0
    /\ crashed' = FALSE
    /\ lastCall' = "resetPosition"
    /\ trail' = TrailAfter("resetPosition", "none")
    /\ result' = "none"
    /\ callStart' = [t |-> <<0, 0>>, r |-> 0]
    /\ teleports' = <<[t |-> InitialTranslation, r |-> 0]>>
    /\ mon' = NoMon
    /\ UNCHANGED <<pc, stack, dest, heading, wheels>>
    /\ UNCHANGED <<interfaceType, running, report, paused, graphicVars, envVars>>

\* faulty variant: resetPosition keeps the rotation the mouse has
ResetPositionKeepsRotation ==
    /\ running
    /\ pc = "idle"
    /\ translation' = InitialTranslation
    /\ rotation' = rotation
    /\ lastCall' = "resetPosition"
    /\ trail' = TrailAfter("resetPosition", "none")
    /\ result' = "none"
    /\ callStart' = [t |-> <<0, 0>>, r |-> 0]
    /\ teleports' = <<[t |-> InitialTranslation, r |-> rotation]>>
    /\ mon' = NoMon
    /\ UNCHANGED <<pc, stack, dest, heading, wheels>>
    /\ UNCHANGED <<simVars, graphicVars, envVars>>

\* resetPosition: teleport to the initial translation, rotation 0
ResetPosition ==
    /\ running
    /\ pc = "idle"
    /\ translation' = InitialTranslation
    /\ rotation' = 0
    /\ lastCall' = "resetPosition"
    /\ trail' = TrailAfter("resetPosition", "none")
    /\ result' = "none"
    /\ callStart' = [t |-> <<0, 0>>, r |-> 0]
    /\ teleports' = <<[t |-> InitialTranslation, r |-> 0]>>
    /\ mon' = NoMon
    /\ UNCHANGED <<pc, stack, dest, heading, wheels>>
    /\ UNCHANGED <<simVars, graphicVars, envVars>>

\* faulty variant: delay is taken for an operation of the discrete interface
DelayDiscreteOnly ==
    /\ running
    /\ pc = "idle"
    /\ IF ~ensureDiscreteInterface THEN ModeViolation("delay", "DISCRETE")
       ELSE /\ AtomicCall("delay", "none")
            /\ UNCHANGED <<simVars, mouseVars, graphicVars, envVars>>

\* delay: the algorithm context sleeps
Delay ==
    /\ running
    /\ pc = "idle"
    /\ AtomicCall("delay", "none")
    /\ UNCHANGED <<simVars, mouseVars, graphicVars, envVars>>

\* ------------------------------------------------------ continuous mode
SensorNames == {"front"}

\* setWheelSpeeds(l, r)
SetWheelSpeeds(w) ==
    /\ running
    /\ pc = "idle"
    /\ IF ~ensureContinuousInterface THEN ModeViolation("setWheelSpeeds", "CONTINUOUS")
       ELSE /\ wheels' = w
            /\ AtomicCall("setWheelSpeeds", "none")
            /\ UNCHANGED <<translation, rotation>>
            /\ UNCHANGED <<simVars, graphicVars, envVars>>

\* read(name): 0.0 for an unknown sensor, the sensor's value otherwise
Read(name) ==
    /\ running
    /\ pc = "idle"
    /\ IF ~ensureContinuousInterface THEN ModeViolation("read", "CONTINUOUS")
       ELSE IF name \notin SensorNames
       THEN /\ AtomicCall("read", "zero")
            /\ UNCHANGED <<simVars, mouseVars, graphicVars, envVars>>
       ELSE /\ AtomicCall("read", "value")
            /\ UNCHANGED <<simVars, mouseVars, graphicVars, envVars>>

\* readGyro
ReadGyro ==
    /\ running
    /\ pc = "idle"
    /\ IF ~ensureContinuousInterface THEN ModeViolation("readGyro", "CONTINUOUS")
       ELSE /\ AtomicCall("readGyro", "gyro")
            /\ UNCHANGED <<simVars, mouseVars, graphicVars, envVars>>

\* ------------------------------------------------------ tile annotation
ColorChars == {"r", "g"}
BaseColor == "base"

\* setTileColor(x, y, color)
SetTileColor(x, y, c) ==
    /\ running
    /\ pc = "idle"
    /\ AtomicCall("setTileColor", "none")
    /\ IF ~withinMaze(x, y) \/ c \notin ColorChars
       THEN UNCHANGED <<graphicVars, annotations>>
       ELSE /\ CanAnnotate
            /\ gColor' = [gColor EXCEPT ![<<x, y>>] = c]
            /\ tilesWithColor' = tilesWithColor \cup {<<x, y>>}
            /\ Annotated(TRUE)
            /\ UNCHANGED <<gWalls, gFog, gText>>
    /\ UNCHANGED <<simVars, mouseVars, walls, param, currentViewPolygon, inputButtons>>

\* faulty variant: the tile is reset to the base colour but stays in the set
ClearTileColorKeepsEntry(x, y) ==
    /\ running
    /\ pc = "idle"
    /\ AtomicCall("clearTileColor", "none")
    /\ IF ~withinMaze(x, y)
       THEN UNCHANGED <<graphicVars, annotations>>
       ELSE /\ CanAnnotate
            /\ gColor' = [gColor EXCEPT ![<<x, y>>] = BaseColor]
            /\ Annotated(TRUE)
            /\ UNCHANGED <<gWalls, gFog, gText, tilesWithColor>>
    /\ UNCHANGED <<simVars, mouseVars, walls, param, currentViewPolygon, inputButtons>>

\* clearTileColor(x, y)
ClearTileColor(x, y) ==
    /\ running
    /\ pc = "idle"
    /\ AtomicCall("clearTileColor", "none")
    /\ IF ~withinMaze(x, y)
       THEN UNCHANGED <<graphicVars, annotations>>
       ELSE /\ CanAnnotate
            /\ gColor' = [gColor EXCEPT ![<<x, y>>] = BaseColor]
            /\ tilesWithColor' = tilesWithColor \ {<<x, y>>}
            /\ Annotated(TRUE)
            /\ UNCHANGED <<gWalls, gFog, gText>>
    /\ UNCHANGED <<simVars, mouseVars, walls, param, currentViewPolygon, inputButtons>>

\* clearAllTileColor
ClearAllTileColor ==
    /\ running
    /\ pc = "idle"
    /\ AtomicCall("clearAllTileColor", "none")
    /\ tilesWithColor # {} => CanAnnotate
    /\ gColor' = [c \in DOMAIN gColor |->
                    IF c \in tilesWithColor THEN BaseColor ELSE gColor[c]]
    /\ tilesWithColor' = {}
    /\ Annotated(tilesWithColor # {})
    /\ UNCHANGED <<gWalls, gFog, gText>>
    /\ UNCHANGED <<simVars, mouseVars, walls, param, currentViewPolygon, inputButtons>>

\* whether declareWall / undeclareWall get past their checks
WallArgumentsValid(x, y, c) == withinMaze(x, y) /\ c \in DirectionChars

\* declareWall(x, y, direction, wallExists)
DeclareWall(x, y, c, wallExists) ==
    /\ running
    /\ pc = "idle"
    /\ AtomicCall("declareWall", "none")
    /\ WallArgumentsValid(x, y, c) => CanAnnotate
    /\ gWalls' = DeclareWallOn(gWalls, x, y, c, wallExists)
    /\ Annotated(WallArgumentsValid(x, y, c))
    /\ UNCHANGED <<gColor, gFog, gText, tilesWithColor>>
    /\ UNCHANGED <<simVars, mouseVars, walls, param, currentViewPolygon, inputButtons>>

\* undeclareWall(x, y, direction)
UndeclareWall(x, y, c) ==
    /\ running
    /\ pc = "idle"
    /\ AtomicCall("undeclareWall", "none")
    /\ WallArgumentsValid(x, y, c) => CanAnnotate
    /\ gWalls' = UndeclareWallOn(gWalls, x, y, c)
    /\ Annotated(WallArgumentsValid(x, y, c))
    /\ UNCHANGED <<gColor, gFog, gText, tilesWithColor>>
    /\ UNCHANGED <<simVars, mouseVars, walls, param, currentViewPolygon, inputButtons>>

\* faulty variant: the fog is set without asking whether the algorithm controls it
SetTileFogginessUnasked(x, y, foggy) ==
    /\ running
    /\ pc = "idle"
    /\ AtomicCall("setTileFogginess", "none")
    /\ IF ~withinMaze(x, y)
       THEN UNCHANGED <<graphicVars, annotations>>
       ELSE /\ CanAnnotate
            /\ gFog' = [gFog EXCEPT ![<<x, y>>] = foggy]
            /\ Annotated(TRUE)
            /\ UNCHANGED <<gWalls, gColor, gText, tilesWithColor>>
    /\ UNCHANGED <<simVars, mouseVars, walls, param, currentViewPolygon, inputButtons>>

\* setTileFogginess(x, y, foggy)
SetTileFogginess(x, y, foggy) ==
    /\ running
    /\ pc = "idle"
    /\ AtomicCall("setTileFogginess", "none")
    /\ IF ~withinMaze(x, y) \/ ~param.algorithmControlsTileFog
       THEN UNCHANGED <<graphicVars, annotations>>
       ELSE /\ CanAnnotate
            /\ gFog' = [gFog EXCEPT ![<<x, y>>] = foggy]
            /\ Annotated(TRUE)
            /\ UNCHANGED <<gWalls, gColor, gText, tilesWithColor>>
    /\ UNCHANGED <<simVars, mouseVars, walls, param, currentViewPolygon, inputButtons>>

\* declareTileDistance(x, y, distance)
DeclareTileDistance(x, y, distance) ==
    /\ running
    /\ pc = "idle"
    /\ AtomicCall("declareTileDistance", "none")
    /\ IF ~withinMaze(x, y)
       THEN UNCHANGED <<graphicVars, annotations>>
       ELSE /\ CanAnnotate
            /\ gText' = [gText EXCEPT ![<<x, y>>] = <<distance>>]
            /\ Annotated(TRUE)
            /\ UNCHANGED <<gWalls, gColor, gFog, tilesWithColor>>
    /\ UNCHANGED <<simVars, mouseVars, walls, param, currentViewPolygon, inputButtons>>

\* undeclareTileDistance(x, y)
UndeclareTileDistance(x, y) ==
    /\ running
    /\ pc = "idle"
    /\ AtomicCall("undeclareTileDistance", "none")
    /\ IF ~withinMaze(x, y)
       THEN UNCHANGED <<graphicVars, annotations>>
       ELSE /\ CanAnnotate
            /\ gText' = [gText EXCEPT ![<<x, y>>] = <<>>]
            /\ Annotated(TRUE)
            /\ UNCHANGED <<gWalls, gColor, gFog, tilesWithColor>>
    /\ UNCHANGED <<simVars, mouseVars, walls, param, currentViewPolygon, inputButtons>>

\* --------------------------------------------------------- input buttons
Buttons == 0 .. 9

\* inputButtonPressed(inputButton)
InputButtonPressedValue(k) == IF k < 0 \/ 9 < k THEN FALSE ELSE inputButtons[k]

InputButtonPressed(k) ==
    /\ running
    /\ pc = "idle"
    /\ AtomicCall("inputButtonPressed", BoolResult(InputButtonPressedValue(k)))
    /\ UNCHANGED <<simVars, mouseVars, graphicVars, envVars>>

\* faulty variant: acknowledging a button clears every flag
AcknowledgeOnClearsAll(b, k) == IF k < 0 \/ 9 < k THEN b ELSE [j \in DOMAIN b |-> FALSE]

\* acknowledgeInputButtonPressed(inputButton) as a function of the flags
AcknowledgeOn(b, k) == IF k < 0 \/ 9 < k THEN b ELSE [b EXCEPT ![k] = FALSE]

AcknowledgeInputButtonPressed(k) ==
    /\ running
    /\ pc = "idle"
    /\ AtomicCall("acknowledgeInputButtonPressed", "none")
    /\ inputButtons' = AcknowledgeOn(inputButtons, k)
    /\ UNCHANGED <<walls, param, currentViewPolygon, annotations>>
    /\ UNCHANGED <<simVars, mouseVars, graphicVars>>

\* the user presses an input button (the simulation context sets its flag)
PressButton(k) ==
    /\ running
    /\ ~inputButtons[k]
    /\ Cardinality({b \in Buttons : inputButtons[b]}) < MaxPressed
    /\ inputButtons' = [inputButtons EXCEPT ![k] = TRUE]
    /\ UNCHANGED <<walls, param, currentViewPolygon, annotations, lastCall, result>>
    /\ UNCHANGED <<simVars, mouseVars, graphicVars, callVars>>

\* ------------------------------------------------------------ the sensor
\* m_range, in the length unit of the model
SensorRange == 4
\* m_halfWidth, as the sideways reach of the outermost ray at full range
SensorHalfWidth == 1

Rays == (-SensorHalfWidth) .. SensorHalfWidth

\* a view polygon is the clip of each of its rays, the fraction <<n, d>> of the ray
NoViewPolygon == [k \in Rays |-> <<0, 0>>]

\* the tile edge that wall d of tile c stands on, from end a to end b
WallSegment(c, d) ==
    LET x0 == c[1] * TileLength
        x1 == (c[1] + 1) * TileLength
        y0 == c[2] * TileLength
        y1 == (c[2] + 1) * TileLength
    IN  CASE d = "NORTH" -> [a |-> <<x0, y1>>, b |-> <<x1, y1>>]
          [] d = "SOUTH" -> [a |-> <<x0, y0>>, b |-> <<x1, y0>>]
          [] d = "EAST"  -> [a |-> <<x1, y0>>, b |-> <<x1, y1>>]
          [] d = "WEST"  -> [a |-> <<x0, y0>>, b |-> <<x0, y1>>]

WallSegments(m) ==
    {WallSegment(w[1], w[2]) : w \in {v \in Cells \X Directions : m[v[1]][v[2]]}}

\* where the ray from start to end crosses the segment s: the fraction of the ray
\* at the crossing, or nothing; i is the coordinate that is constant along s
Crossing(start, end, s) ==
    LET i == IF s.a[2] = s.b[2] THEN 2 ELSE 1
        j == 3 - i
        run == end[i] - start[i]
        n == Sign(run) * (s.a[i] - start[i])
        d == Sign(run) * run
        at == start[j] * d + n * (end[j] - start[j])
    IN  IF run # 0 /\ 0 <= n /\ n <= d /\ s.a[j] * d <= at /\ at <= s.b[j] * d
        THEN {<<n, d>>} ELSE {}

\* faulty variant: of several crossings the one farthest from the start is kept
castRayKeepsFarthest(start, end, m) ==
    LET hits == UNION {Crossing(start, end, s) : s \in WallSegments(m)}
    IN  IF hits = {} THEN <<1, 1>>
        ELSE CHOOSE h \in hits : \A g \in hits : g[1] * h[2] <= h[1] * g[2]

\* Sensor::castRay(start, end, maze): the crossing nearest the start, the end of
\* the ray when it crosses no wall
castRay(start, end, m) ==
    LET hits == UNION {Crossing(start, end, s) : s \in WallSegments(m)}
    IN  IF hits = {} THEN <<1, 1>>
        ELSE CHOOSE h \in hits : \A g \in hits : h[1] * g[2] <= g[1] * h[2]

\* Sensor::getViewPolygon(currentPosition, currentDirection, maze): one ray to each
\* point of the far edge of the cone
getViewPolygon(pos, dir, m) ==
    LET f == HeadingVector(dir)
        l == <<f[2], -f[1]>>
    IN  [k \in Rays |->
            castRay(pos, <<pos[1] + SensorRange * f[1] + k * l[1],
                           pos[2] + SensorRange * f[2] + k * l[2]>>, m)]

getCurrentViewPolygon(pos, dir, m) == getViewPolygon(pos, dir, m)

\* Sensor::updateReading(currentPosition, currentDirection, maze), run by the
\* simulation for the pose the mouse is in
UpdateReading ==
    /\ running
    /\ currentViewPolygon' = getCurrentViewPolygon(translation, rotation, walls)
    /\ UNCHANGED <<walls, param, inputButtons, annotations, lastCall, result>>
    /\ UNCHANGED <<simVars, mouseVars, graphicVars, callVars>>

\* ------------------------------------------------------------ the run
Flags(both, onRead, fog) ==
    [declareBothWallHalves |-> both, discreteInterfaceDeclareWallOnRead |-> onRead,
     algorithmControlsTileFog |-> fog]

CanonicalAngles == {0, 90, 180, 270}

\* a run that is between two calls with the mouse at one of the translations
InitObserved(modes, mazes, translations, rotations, params, trails) ==
    /\ trail \in trails
    /\ interfaceType \in modes
    /\ running = TRUE
    /\ report = NoReport
    /\ crashed = FALSE
    /\ paused = FALSE
    /\ translation \in translations
    /\ rotation \in rotations
    /\ wheels = Stopped
    /\ walls \in mazes
    /\ currentViewPolygon = NoViewPolygon
    /\ lastCall = "none"
    /\ pc = "idle"
    /\ stack = <<>>
    /\ dest = NoDest
    /\ heading = "none"
    /\ callStart = [t |-> <<0, 0>>, r |-> 0]
    /\ teleports = <<>>
    /\ mon = NoMon
    /\ result = "none"
    /\ param \in params
    /\ gWalls = [c \in GraphicCells |-> [d \in Directions |-> "undeclared"]]
    /\ gColor = [c \in GraphicCells |-> BaseColor]
    /\ gFog = [c \in GraphicCells |-> FALSE]
    /\ gText = [c \in GraphicCells |-> <<>>]
    /\ tilesWithColor = {}
    /\ inputButtons = [k \in Buttons |-> FALSE]
    /\ annotations = 0

\* a run that starts: the mouse is at the initial translation
InitAt(modes, mazes, translations, rotations, params) ==
    InitObserved(modes, mazes, translations, rotations, params, {Unobserved})

InitWith(modes, mazes, rotations, params) ==
    InitAt(modes, mazes, {InitialTranslation}, rotations, params)

\* the steps of a motion call in progress
MotionStep ==
    \/ TurnAroundSecond
    \/ LoopTest
    \/ CheckPaused
    \/ PausedWait
    \/ Drive
    \/ Sleep
    \/ StopWheels
    \/ TeleportToDestination

\* the discrete interface
DiscreteCall ==
    \/ MoveForwardCall
    \/ TurnCall("turnRight")
    \/ TurnCall("turnLeft")
    \/ TurnAroundCall
    \/ \E fn \in {"wallFront", "wallRight", "wallLeft"} : WallQuery(fn)

WheelInputs == {Stopped, Forward, SpinRight}

\* the continuous interface
ContinuousCall ==
    \/ \E w \in WheelInputs : SetWheelSpeeds(w)
    \/ \E name \in {"front", "rear"} : Read(name)
    \/ ReadGyro

\* the simulation context
Simulation ==
    \/ Integrate
    \/ TogglePause

OpenMaze == Maze(TRUE, FALSE, FALSE)

Init ==
    \/ InitWith({"DISCRETE"}, Mazes, CanonicalAngles, {Flags(FALSE, FALSE, FALSE)})
    \/ InitWith({"CONTINUOUS"}, {OpenMaze}, {0}, {Flags(FALSE, FALSE, FALSE)})

Next ==
    \/ DiscreteCall
    \/ MotionStep
    \/ ContinuousCall
    \/ ResetPosition
    \/ Delay
    \/ Simulation

Spec == Init /\ [][Next]_vars

\* ---------------------------------------------------------------- C1
DiscreteOnly == {"moveForward", "turnLeft", "turnRight", "turnAround",
                 "wallFront", "wallLeft", "wallRight"}
ContinuousOnly == {"setWheelSpeeds", "read", "readGyro"}

\* the step in which the algorithm calls the mode-gated facade function fn
GatedCall(fn) ==
    CASE fn = "moveForward" -> MoveForwardCall
      [] fn \in {"turnLeft", "turnRight"} -> TurnCall(fn)
      [] fn = "turnAround" -> TurnAroundCall
      [] fn \in {"wallFront", "wallLeft", "wallRight"} -> WallQuery(fn)
      [] fn = "setWheelSpeeds" -> \E w \in WheelInputs : SetWheelSpeeds(w)
      [] fn = "read" -> \E name \in {"front", "rear"} : Read(name)
      [] fn = "readGyro" -> ReadGyro

RequiredMode(fn) == IF fn \in DiscreteOnly THEN "DISCRETE" ELSE "CONTINUOUS"

\* the run ends with the mismatch reported, and the call has commanded nothing
EndsWithMismatch(fn) ==
    /\ ~running'
    /\ report' = [fn |-> fn, required |-> RequiredMode(fn)]
    /\ UNCHANGED <<translation, rotation, wheels, crashed, teleports, mon, pc, stack>>
    /\ result' = "none"

\* C1: a discrete-only operation called while the mode is not DISCRETE, and a
\* continuous-only operation called while the mode is not CONTINUOUS, ends the run
\* with a mode mismatch reported that names the operation and the required mode;
\* that call commands no wheel speed, no teleport, no sensor read and does not
\* write the crashed flag.
C1_ModeMismatchEndsRun ==
    [][\A fn \in DiscreteOnly \cup ContinuousOnly :
          (GatedCall(fn) /\ interfaceType # RequiredMode(fn)) => EndsWithMismatch(fn)]_vars

C1_Witness ==
    /\ ~running
    /\ interfaceType = "DISCRETE"
    /\ report = [fn |-> "setWheelSpeeds", required |-> "CONTINUOUS"]

\* ---------------------------------------------------------------- C2
WallInFront ==
    /\ isWallAsserts(getDiscretizedTranslation)
    /\ isWallValue(getDiscretizedTranslation, getDiscretizedRotation)

\* C2: in DISCRETE mode, moveForward with a wall in front leaves translation and
\* rotation unchanged, commands no wheel speed and no teleport, starts no loop and
\* leaves crashed = TRUE, whether or not the flag was set before the call.
C2_MoveIntoWall ==
    [][(MoveForwardCall /\ interfaceType = "DISCRETE" /\ WallInFront)
         => /\ UNCHANGED <<translation, rotation, wheels>>
            /\ crashed'
            /\ teleports' = <<>>
            /\ mon'.last = "none"
            /\ pc' = "idle"
            /\ running']_vars

\* a crash recorded in a cell other than the start cell, the wall still in front
C2_Witness ==
    /\ crashed
    /\ pc = "idle"
    /\ WallInFront
    /\ teleports = <<>>
    /\ getDiscretizedTranslation = <<MazeWidth - 1, 0>>
    /\ getDiscretizedRotation = "EAST"

\* ---------------------------------------------------------------- C3
Neighbour(c, d) ==
    CASE d = "NORTH" -> <<c[1], c[2] + 1>>
      [] d = "EAST"  -> <<c[1] + 1, c[2]>>
      [] d = "SOUTH" -> <<c[1], c[2] - 1>>
      [] d = "WEST"  -> <<c[1] - 1, c[2]>>

\* the step in which the motion function fn, called by the algorithm, returns
Returns(fn) == pc = "teleport" /\ pc' = "idle" /\ stack = <<<<fn, 0>>>>

\* C3: when a moveForward that found no wall in front returns, the discretized
\* translation is the neighbour, in the heading the call started with, of the cell
\* the call started in, and the discretized rotation is that heading, whatever the
\* position the loop ended at.
C3_MoveForwardRoundTrip ==
    [][Returns("moveForward")
         => /\ DiscretizedTranslationOf(translation') =
                 Neighbour(DiscretizedTranslationOf(callStart.t),
                           DiscretizedRotationOf(callStart.r))
            /\ DiscretizedRotationOf(rotation') = DiscretizedRotationOf(callStart.r)]_vars

\* a moveForward heading WEST has returned after its loop ran
C3_Witness ==
    /\ pc = "idle"
    /\ mon.exitSeen
    /\ Len(teleports) = 1
    /\ DiscretizedRotationOf(callStart.r) = "WEST"
    /\ getDiscretizedTranslation = Neighbour(DiscretizedTranslationOf(callStart.t), "WEST")
    /\ getDiscretizedTranslation # DiscretizedTranslationOf(callStart.t)

\* ---------------------------------------------------------------- C4
CanonicalAngle(d) ==
    CASE d = "NORTH" -> 0 [] d = "WEST" -> 90 [] d = "SOUTH" -> 180 [] d = "EAST" -> 270

\* C4: between the discrete calls of a run that started at the initial pose with a
\* canonical heading, the translation is exactly the initial translation plus
\* the tile length times the discretized cell, and the rotation is exactly the
\* canonical angle of the discretized heading.
C4_NoDrift ==
    (interfaceType = "DISCRETE" /\ pc \in {"idle", "call2"})
      => /\ translation[1] = InitialTranslation[1] + TileLength * getDiscretizedTranslation[1]
         /\ translation[2] = InitialTranslation[2] + TileLength * getDiscretizedTranslation[2]
         /\ rotation = CanonicalAngle(getDiscretizedRotation)

\* a turnAround has returned in a cell the mouse had to move to
C4_Witness ==
    /\ interfaceType = "DISCRETE"
    /\ pc = "idle"
    /\ Len(teleports) = 2
    /\ getDiscretizedTranslation = <<MazeWidth - 1, MazeHeight - 1>>
    /\ rotation = 180

\* ---------------------------------------------------------------- C5
\* the pose one turnRight ends at, from the pose p it began at
TurnRightResult(p) == [t |-> p.t, r |-> Norm(p.r - 90)]

Pose == [t |-> translation, r |-> rotation]

\* C5: turnAround has the effect of two turnRight calls in a row.  A turnRight
\* from pose p returns with the teleports <<R(p)>>, at pose R(p), wheels at rest; a
\* turnAround from p returns with the teleports <<R(p), R(R(p))>>, at pose R(R(p)),
\* wheels at rest; and in both the only wheel speeds commanded are those of turnRight
\* and (0, 0).
C5_TurnAroundIsTwoTurnRights ==
    [][/\ Returns("turnRight")
            => /\ teleports' = <<TurnRightResult(callStart)>>
               /\ Pose' = TurnRightResult(callStart)
               /\ wheels' = Stopped
       /\ (pc = "teleport" /\ pc' = "idle" /\ stack[1][1] = "turnAround")
            => /\ teleports' = <<TurnRightResult(callStart),
                                 TurnRightResult(TurnRightResult(callStart))>>
               /\ Pose' = TurnRightResult(TurnRightResult(callStart))
               /\ wheels' = Stopped
       /\ (stack' # <<>> /\ stack'[1][1] \in {"turnRight", "turnAround"})
            => wheels' \in {Stopped, SpinRight}]_vars

\* a turnAround has returned, having started heading EAST
C5_Witness ==
    /\ pc = "idle"
    /\ Len(teleports) = 2
    /\ callStart.r = 270
    /\ rotation = 90
    /\ wheels = Stopped

\* ---------------------------------------------------------------- C9
\* the pose a motion call that has just set out will be teleported to
SetsOutFor(t, r) == pc' = "loop" /\ dest' = [t |-> t, r |-> r]

\* the centre of the cell c
CentreOf(c) == <<InitialTranslation[1] + TileLength * c[1],
                 InitialTranslation[2] + TileLength * c[2]>>

\* C9: the crashed flag does not gate motion.  Whatever the flag, a moveForward with
\* no wall in front sets out for the centre of the next cell in the heading, and a
\* turn sets out for the heading a quarter turn away; the flag is not written by a
\* call that sets out nor by any step of its loop, and the call returns at the
\* destination it set out for.
C9_CrashDoesNotGateMotion ==
    [][/\ (MoveForwardCall /\ interfaceType = "DISCRETE"
             /\ isWallAsserts(getDiscretizedTranslation) /\ ~WallInFront)
            => /\ SetsOutFor(CentreOf(Neighbour(getDiscretizedTranslation,
                                                getDiscretizedRotation)),
                             CanonicalAngle(getDiscretizedRotation))
               /\ crashed' = crashed
       /\ ((TurnCall("turnRight") \/ TurnAroundCall) /\ interfaceType = "DISCRETE")
            => SetsOutFor(translation, Norm(rotation - 90)) /\ crashed' = crashed
       /\ (TurnCall("turnLeft") /\ interfaceType = "DISCRETE")
            => SetsOutFor(translation, Norm(rotation + 90)) /\ crashed' = crashed
       /\ pc # "idle" => crashed' = crashed
       /\ (pc = "teleport" /\ pc' # "teleport") => Pose' = dest]_vars

\* a moveForward called with the flag set has moved the mouse to the next cell
C9_Witness ==
    /\ crashed
    /\ pc = "idle"
    /\ lastCall = "moveForward"
    /\ Len(teleports) = 1
    /\ getDiscretizedTranslation # DiscretizedTranslationOf(callStart.t)

\* --------------------------------------------------------------- C10
InMotion == pc \in {"loop", "checkPaused", "pausedWait", "drive", "sleep", "stop", "teleport"}

\* C10: a motion call teleports exactly once, after its loop's test has come out
\* false and after it has commanded the wheels to (0, 0); it teleports never while
\* the loop runs, and commands no non-zero wheel speed after the zeroing.
C10_TeleportOnceAfterStop ==
    /\ ~mon.early
    /\ ~mon.late
    /\ InMotion => mon.tele = 0
    /\ mon.tele >= 1 => (mon.exitSeen /\ mon.tele = 1 /\ mon.last = "teleport")
    /\ (pc \in {"idle", "call2"} /\ lastCall \in {"moveForward", "turnLeft", "turnRight",
                                                   "turnAround"} /\ mon # NoMon)
         => mon.tele = 1

\* a turnLeft whose loop drove the wheels has returned after its one teleport
C10_Witness ==
    /\ pc = "idle"
    /\ lastCall = "turnLeft"
    /\ mon.tele = 1
    /\ mon.last = "teleport"
    /\ teleports = <<[t |-> callStart.t, r |-> Norm(callStart.r + 90)]>>
    /\ wheels = Stopped

\* ------------------------------------------- the wall annotation alone
\* arguments around the corners of the maze, and one step outside it
XInputs == {-1, 0, MazeWidth - 1, MazeWidth}
YInputs == {-1, 0, MazeHeight - 1, MazeHeight}
DirectionInputs == DirectionChars \cup {"x"}

\* the tiles the algorithm annotates: two opposite corners of the maze and two
\* positions outside it
WallCallSites == {<<0, 0>>, <<MazeWidth - 1, MazeHeight - 1>>, <<-1, 0>>, <<0, MazeHeight>>}

WallAnnotationCall ==
    \E site \in WallCallSites, c \in DirectionInputs :
        \/ \E wallExists \in BOOLEAN : DeclareWall(site[1], site[2], c, wallExists)
        \/ UndeclareWall(site[1], site[2], c)

InitWalls ==
    InitWith({"DISCRETE"}, {OpenMaze}, {0},
             {Flags(both, FALSE, FALSE) : both \in BOOLEAN})

NextWalls == WallAnnotationCall

SpecWalls == InitWalls /\ [][NextWalls]_vars

\* ---------------------------------------------------------------- C6
Opposite(d) ==
    CASE d = "NORTH" -> "SOUTH" [] d = "SOUTH" -> "NORTH"
      [] d = "EAST" -> "WEST" [] d = "WEST" -> "EAST"

\* the overlay g with the side d of the tile at (x, y) set to v and, when both
\* halves are declared and the tile across that side is in the maze, the facing
\* side of that tile set to v too
BothHalves(g, x, y, d, v) ==
    LET across == Neighbour(<<x, y>>, d)
    IN  [c \in DOMAIN g |-> [e \in Directions |->
            IF c = <<x, y>> /\ e = d THEN v
            ELSE IF param.declareBothWallHalves /\ across \in Cells
                    /\ c = across /\ e = Opposite(d) THEN v
            ELSE g[c][e]]]

\* C6: in every overlay the run reaches, declareWall(x, y, d, e) with (x, y) in the
\* maze and d a direction character would set the side d of the tile to e and, when
\* declare-both-wall-halves is on and a tile lies across that side, the facing side
\* of that tile to e; undeclareWall would clear the same sides; no other side of
\* any tile would change.  With invalid arguments neither changes the overlay.
C6_WallAnnotationBothHalves ==
    \A x \in XInputs, y \in YInputs, c \in DirectionInputs :
        LET valid == withinMaze(x, y) /\ c \in DirectionChars
        IN  /\ \A e \in BOOLEAN :
                  DeclareWallOn(gWalls, x, y, c, e) =
                      IF valid
                      THEN BothHalves(gWalls, x, y, CharToDirection(c),
                                      IF e THEN "wall" ELSE "nowall")
                      ELSE gWalls
            /\ UndeclareWallOn(gWalls, x, y, c) =
                      IF valid
                      THEN BothHalves(gWalls, x, y, CharToDirection(c), "undeclared")
                      ELSE gWalls

\* both halves of an inner wall declared absent, and a border wall declared
C6_Witness ==
    /\ param.declareBothWallHalves
    /\ lastCall = "declareWall"
    /\ gWalls[<<0, 0>>]["NORTH"] = "nowall"
    /\ gWalls[<<0, 1>>]["SOUTH"] = "nowall"
    /\ gWalls[<<0, 0>>]["WEST"] = "wall"

\* --------------------------------------------------- the buttons alone
ButtonInputs == -1 .. 10

ButtonCall ==
    \E k \in ButtonInputs :
        \/ InputButtonPressed(k)
        \/ AcknowledgeInputButtonPressed(k)

InitButtons ==
    InitWith({"DISCRETE", "CONTINUOUS"}, {OpenMaze}, {0}, {Flags(FALSE, FALSE, FALSE)})

NextButtons ==
    \/ ButtonCall
    \/ \E k \in Buttons : PressButton(k)

SpecButtons == InitButtons /\ [][NextButtons]_vars

\* ---------------------------------------------------------------- C7
\* C7: inputButtonPressed(k) returns the flag of button k for k in 0..9 and false
\* otherwise, changing no flag; acknowledgeInputButtonPressed(k) clears the flag of
\* button k for k in 0..9 and no other flag, and changes nothing otherwise; neither
\* ends the run; a flag becomes set only when the button is pressed.
C7_InputButtons ==
    [][\A k \in ButtonInputs :
          /\ InputButtonPressed(k)
               => /\ result' = IF k \in Buttons /\ inputButtons[k] THEN "true" ELSE "false"
                  /\ inputButtons' = inputButtons
                  /\ running'
          /\ AcknowledgeInputButtonPressed(k)
               => /\ \A j \in Buttons :
                        inputButtons'[j] = IF j = k THEN FALSE ELSE inputButtons[j]
                  /\ running'
          /\ (k \in Buttons /\ ~inputButtons[k] /\ inputButtons'[k]) => PressButton(k)]_vars

\* button 3 was acknowledged while button 4 stayed pressed, and then read as false
C7_Witness ==
    /\ lastCall = "inputButtonPressed"
    /\ result = "false"
    /\ ~inputButtons[3]
    /\ inputButtons[4]
    /\ inputButtons[9]

\* ------------------------------------------------- the facade as a whole
\* the tile annotation calls, on the start tile and on a tile outside the maze
TileAnnotationCall ==
    \E x \in {-1, 0} :
        \/ SetTileColor(x, 0, "r")
        \/ ClearTileColor(x, 0)
        \/ ClearAllTileColor
        \/ SetTileFogginess(x, 0, TRUE)
        \/ DeclareTileDistance(x, 0, 7)
        \/ UndeclareTileDistance(x, 0)
        \/ DeclareWall(x, 0, "n", TRUE)
        \/ UndeclareWall(x, 0, "n")

\* a maze of walls with one opening, between the start tile and the tile north of it
Corridor ==
    [c \in Cells |-> [d \in Directions |->
        ~((c = <<0, 0>> /\ d = "NORTH") \/ (c = <<0, 1>> /\ d = "SOUTH"))]]

InitFacade ==
    InitWith({"DISCRETE"}, {Corridor}, {0}, {Flags(TRUE, FALSE, FALSE)})

NextFacade ==
    \/ DiscreteCall
    \/ MotionStep
    \/ ContinuousCall
    \/ ResetPosition
    \/ Delay
    \/ Simulation
    \/ TileAnnotationCall
    \/ \E k \in {0, 10} : InputButtonPressed(k) \/ AcknowledgeInputButtonPressed(k)

SpecFacade == InitFacade /\ [][NextFacade]_vars

\* ---------------------------------------------------------------- C8
\* C8: the crashed flag, once set, stays set through every facade operation,
\* resetPosition included; it is set only by a moveForward that finds a wall in
\* front.
C8_CrashedIsSticky ==
    [][/\ crashed => crashed'
       /\ (~crashed /\ crashed')
            => (lastCall' = "moveForward" /\ pc = "idle" /\ pc' = "idle" /\ WallInFront)]_vars

\* resetPosition has returned, and a tile was coloured, with the flag still set
C8_Witness ==
    /\ crashed
    /\ lastCall = "resetPosition"
    /\ teleports = <<[t |-> InitialTranslation, r |-> 0]>>
    /\ getDiscretizedRotation = "NORTH"
    /\ tilesWithColor # {}

\* ------------------------------------------ the discrete interface alone
InitMotion ==
    InitWith({"DISCRETE"}, {OpenMaze}, CanonicalAngles, {Flags(FALSE, FALSE, FALSE)})

NextMotion ==
    \/ DiscreteCall
    \/ MotionStep
    \/ Simulation

SpecMotion == InitMotion /\ [][NextMotion]_vars

\* --------------------------------------------------------------- C11
\* C11: cooperative pause.  A loop that reaches its pause check while paused is set
\* commands the wheels to (0, 0) and waits; while it waits and paused stays set the
\* wheels stay at (0, 0) and no speed is commanded; with paused set, the only
\* non-zero command is the one of an iteration already past its pause check, and
\* the tick slept after it leads back to the loop test and the pause check, so the
\* zeroing comes within one tick.  Once paused is cleared the wait ends in the loop
\* body, which commands the loop's speeds again; the destination is the one
\* computed before the pause.
C11_CooperativePause ==
    [][/\ (paused /\ paused' /\ pc = "checkPaused" /\ pc' # pc)
            => (pc' = "pausedWait" /\ wheels' = Stopped /\ mon'.last = "zero")
       /\ (paused /\ pc = "pausedWait")
            => (pc' = "pausedWait" /\ wheels' = Stopped /\ mon' = mon)
       /\ (paused /\ paused' /\ wheels' # Stopped
              /\ (wheels' # wheels \/ mon'.last # mon.last))
            => (pc = "drive" /\ pc' = "sleep")
       /\ (pc = "sleep" /\ pc' # pc) => pc' = "loop"
       /\ (pc = "loop" /\ pc' # pc) => pc' \in {"checkPaused", "stop"}
       /\ (pc = "pausedWait" /\ pc' # pc)
            => (~paused /\ pc' = "drive" /\ wheels' = Stopped)
       /\ (pc = "drive" /\ pc' # pc)
            => (pc' = "sleep" /\ wheels' = DriveCommand(Top))
       /\ (InMotion /\ InMotion') => (dest' = dest /\ stack' = stack)]_vars

\* a moveForward paused on its way, waiting with the wheels at rest
C11_Witness ==
    /\ paused
    /\ pc = "pausedWait"
    /\ Top = "moveForward"
    /\ wheels = Stopped
    /\ translation # callStart.t
    /\ translation # dest.t

\* ------------------------------------- annotation, buttons and sensor reads
\* the tiles the algorithm addresses: two opposite corners of the maze and two
\* positions outside it
TileSites == WallCallSites
ColorInputs == {"r", "?"}

AnnotationCall ==
    \/ \E site \in TileSites :
          \/ \E c \in ColorInputs : SetTileColor(site[1], site[2], c)
          \/ ClearTileColor(site[1], site[2])
          \/ SetTileFogginess(site[1], site[2], TRUE)
          \/ DeclareTileDistance(site[1], site[2], 7)
          \/ UndeclareTileDistance(site[1], site[2])
          \/ \E c \in {"n", "x"} :
                \/ DeclareWall(site[1], site[2], c, TRUE)
                \/ UndeclareWall(site[1], site[2], c)
    \/ ClearAllTileColor

InitAnnotate ==
    InitWith({"DISCRETE", "CONTINUOUS"}, {OpenMaze}, {0},
             {Flags(TRUE, onRead, fog) : onRead \in BOOLEAN, fog \in BOOLEAN})

NextAnnotate ==
    \/ AnnotationCall
    \/ \E fn \in {"wallFront", "wallRight", "wallLeft"} : WallQuery(fn)
    \/ \E name \in {"front", "rear"} : Read(name)
    \/ ResetPosition
    \/ Delay
    \/ \E k \in {0, 10} : InputButtonPressed(k) \/ AcknowledgeInputButtonPressed(k)

SpecAnnotate == InitAnnotate /\ [][NextAnnotate]_vars

\* --------------------------------------------------------------- C12
\* the call changes nothing but what it returns, and the run goes on
NoOp ==
    /\ running'
    /\ UNCHANGED <<graphicVars, mouseVars, simVars, walls, inputButtons>>

OutOfBounds(site) == ~(site[1] \in 0 .. MazeWidth - 1 /\ site[2] \in 0 .. MazeHeight - 1)

\* C12: a tile annotation call on a cell outside the maze, setTileColor with an
\* unmapped colour character, declareWall / undeclareWall with an unmapped
\* direction character, setTileFogginess when the algorithm does not control the
\* fog, and, in CONTINUOUS mode, read with an unknown sensor name change neither
\* the overlay, the coloured-tile set, the pose, the wheel speeds nor the
\* process-wide flags, and the run goes on; the read returns 0.
C12_InputErrorsAreNoOps ==
    [][/\ lastCall' = "setTileColor" =>
            \A site \in TileSites, c \in ColorInputs :
                (SetTileColor(site[1], site[2], c) /\ (OutOfBounds(site) \/ c = "?")) => NoOp
       /\ lastCall' = "clearTileColor" =>
            \A site \in TileSites :
                (ClearTileColor(site[1], site[2]) /\ OutOfBounds(site)) => NoOp
       /\ lastCall' = "setTileFogginess" =>
            \A site \in TileSites :
                (SetTileFogginess(site[1], site[2], TRUE)
                   /\ (OutOfBounds(site) \/ ~param.algorithmControlsTileFog)) => NoOp
       /\ lastCall' = "declareTileDistance" =>
            \A site \in TileSites :
                (DeclareTileDistance(site[1], site[2], 7) /\ OutOfBounds(site)) => NoOp
       /\ lastCall' = "undeclareTileDistance" =>
            \A site \in TileSites :
                (UndeclareTileDistance(site[1], site[2]) /\ OutOfBounds(site)) => NoOp
       /\ lastCall' = "declareWall" =>
            \A site \in TileSites, c \in {"n", "x"} :
                (DeclareWall(site[1], site[2], c, TRUE) /\ (OutOfBounds(site) \/ c = "x"))
                   => NoOp
       /\ lastCall' = "undeclareWall" =>
            \A site \in TileSites, c \in {"n", "x"} :
                (UndeclareWall(site[1], site[2], c) /\ (OutOfBounds(site) \/ c = "x"))
                   => NoOp
       /\ (interfaceType = "CONTINUOUS" /\ Read("rear")) => (NoOp /\ result' = "zero")]_vars

\* a read of an unknown sensor has returned 0 in a run whose overlay was written
\* before, and that goes on
C12_Witness ==
    /\ running
    /\ interfaceType = "CONTINUOUS"
    /\ lastCall = "read"
    /\ result = "zero"
    /\ gColor[<<0, 0>>] = "r"
    /\ ~param.algorithmControlsTileFog

\* ------------------------------------------------- the wall queries alone
\* the mouse stands at the centre of any tile, at any canonical heading
InitQuery ==
    InitAt({"DISCRETE"}, Mazes, {CentreOf(c) : c \in Cells}, CanonicalAngles,
           {Flags(TRUE, onRead, FALSE) : onRead \in BOOLEAN})

NextQuery == \E fn \in {"wallFront", "wallRight", "wallLeft"} : WallQuery(fn)

SpecQuery == InitQuery /\ [][NextQuery]_vars

\* --------------------------------------------------------------- C13
\* the direction a query looks at: the heading, a quarter turn to the left of it
\* (NORTH -> WEST -> SOUTH -> EAST -> NORTH) or to the right of it
Looked(fn) ==
    CASE fn = "wallFront" -> DiscretizedRotationOf(rotation)
      [] fn = "wallLeft"  -> DiscretizedRotationOf(rotation + 90)
      [] fn = "wallRight" -> DiscretizedRotationOf(rotation - 90)

\* C13: in DISCRETE mode, in every tile and at every heading, wallFront, wallLeft
\* and wallRight return the maze's wall flag of the mouse's tile in the heading,
\* in the heading turned left and in the heading turned right; the query changes
\* neither the maze's walls nor the pose, the wheel speeds or the crashed flag,
\* and the run goes on; it changes the overlay only when walls are declared on
\* read, and then only the declared walls.
C13_WallQueries ==
    [][\A fn \in {"wallFront", "wallLeft", "wallRight"} :
          (WallQuery(fn) /\ interfaceType = "DISCRETE")
            => /\ result' = IF walls[DiscretizedTranslationOf(translation)][Looked(fn)]
                            THEN "true" ELSE "false"
               /\ UNCHANGED <<walls, translation, rotation, wheels, crashed>>
               /\ running'
               /\ UNCHANGED <<gColor, gFog, gText, tilesWithColor>>
               /\ gWalls' =
                    IF param.discreteInterfaceDeclareWallOnRead
                    THEN LET cell == DiscretizedTranslationOf(translation)
                         IN  BothHalves(gWalls, cell[1], cell[2], Looked(fn),
                                        IF walls[cell][Looked(fn)] THEN "wall" ELSE "nowall")
                    ELSE gWalls]_vars

\* wallRight has found the border wall right of a mouse heading EAST in the start
\* tile, with no wall in front or to the left, and declared it
C13_Witness ==
    /\ lastCall = "wallRight"
    /\ result = "true"
    /\ rotation = 270
    /\ getDiscretizedTranslation = <<0, 0>>
    /\ ~walls[<<0, 0>>]["NORTH"]
    /\ ~walls[<<0, 0>>]["EAST"]
    /\ gWalls[<<0, 0>>]["SOUTH"] = "wall"

\* ------------------------------------------- the facade in both modes
InitModes ==
    InitWith({"DISCRETE", "CONTINUOUS"}, {Corridor}, {0}, {Flags(TRUE, FALSE, FALSE)})

\* the calls that are not gated by the interface type
ModeAgnosticCall ==
    \/ TileAnnotationCall
    \/ ResetPosition
    \/ Delay
    \/ \E k \in {0, 10} : InputButtonPressed(k) \/ AcknowledgeInputButtonPressed(k)

NextModes ==
    \/ DiscreteCall
    \/ MotionStep
    \/ \E w \in {Stopped, Forward} : SetWheelSpeeds(w)
    \/ \E name \in {"front", "rear"} : Read(name)
    \/ ReadGyro
    \/ ModeAgnosticCall
    \/ Simulation

SpecModes == InitModes /\ [][NextModes]_vars

\* --------------------------------------------------------------- C14
ModeAgnostic ==
    {"setTileColor", "clearTileColor", "clearAllTileColor", "declareWall", "undeclareWall",
     "setTileFogginess", "declareTileDistance", "undeclareTileDistance", "delay",
     "resetPosition", "inputButtonPressed", "acknowledgeInputButtonPressed"}

\* C14: the tile annotation calls, delay, resetPosition, inputButtonPressed and
\* acknowledgeInputButtonPressed are accepted in DISCRETE and in CONTINUOUS mode:
\* none of them ends the run, and a run that has ended never reports one of them;
\* no step of any facade operation changes the interface type.
C14_ModeAgnosticOperations ==
    [][/\ interfaceType' = interfaceType
       /\ ModeAgnosticCall => (running' /\ report' = NoReport /\ lastCall' \in ModeAgnostic)
       /\ ~running' => report'.fn \notin ModeAgnostic]_vars

\* in CONTINUOUS mode, with the wheels driven, a tile was coloured and
\* resetPosition has returned, and the run goes on
C14_Witness ==
    /\ interfaceType = "CONTINUOUS"
    /\ running
    /\ lastCall = "resetPosition"
    /\ gColor[<<0, 0>>] = "r"
    /\ wheels = Forward

\* --------------------------------------------------------------- C15
\* the sensor of a mouse that stands at the centre of a tile and faces a cardinal
\* direction, in every maze of the family
InitSensor ==
    InitAt({"CONTINUOUS"}, Mazes, {CentreOf(c) : c \in Cells}, CanonicalAngles,
           {Flags(FALSE, FALSE, FALSE)})

NextSensor == UpdateReading \/ \E name \in {"front", "rear"} : Read(name)

SpecSensor == InitSensor /\ [][NextSensor]_vars

\* how far ahead of the centre of tile c the nearest wall across direction d
\* stands, found tile by tile; SensorRange when there is none within range
AheadOf(c, d, j) ==
    CASE d = "NORTH" -> <<c[1], c[2] + j>>
      [] d = "EAST"  -> <<c[1] + j, c[2]>>
      [] d = "SOUTH" -> <<c[1], c[2] - j>>
      [] d = "WEST"  -> <<c[1] - j, c[2]>>

WallAhead(c, d) ==
    LET js == {j \in 0 .. (MazeWidth + MazeHeight) :
                  AheadOf(c, d, j) \in Cells /\ walls[AheadOf(c, d, j)][d]}
        first == CHOOSE j \in js : \A i \in js : j <= i
        r == (TileLength - InitialTranslation[1]) + first * TileLength
    IN  IF js # {} /\ r < SensorRange THEN r ELSE SensorRange

\* C15: once the sensor has been updated, every ray of its view polygon is clipped
\* at the distance of the nearest wall straight ahead when that wall is closer than
\* the range, and keeps the full range when no wall is; with several walls along a
\* ray the nearest one decides
C15_ViewPolygonClipped ==
    currentViewPolygon # NoViewPolygon =>
        \A k \in Rays :
            SensorRange * currentViewPolygon[k][1]
                = WallAhead(getDiscretizedTranslation, getDiscretizedRotation)
                    * currentViewPolygon[k][2]

\* a sensor that has two walls ahead of it within range and is clipped at the nearer
C15_Witness ==
    /\ currentViewPolygon # NoViewPolygon
    /\ Cardinality({j \in 0 .. MazeHeight :
           AheadOf(getDiscretizedTranslation, getDiscretizedRotation, j) \in Cells
           /\ walls[AheadOf(getDiscretizedTranslation, getDiscretizedRotation, j)]
                   [getDiscretizedRotation]}) > 1
    /\ WallAhead(getDiscretizedTranslation, getDiscretizedRotation) < SensorRange
    /\ \A k \in Rays : currentViewPolygon[k][1] < currentViewPolygon[k][2]

\* --------------------------------------------------------------- C16
\* moveForward from the centre of any tile in any heading, with the simulation
\* integrating and pausing.  The algorithm context keeps running; the integrator
\* keeps advancing the pose while the wheels are commanded, and a paused run is
\* resumed and the resumption is seen by the wait of checkPaused.
InitForward ==
    InitAt({"DISCRETE"}, {OpenMaze}, {CentreOf(c) : c \in Cells}, CanonicalAngles,
           {Flags(FALSE, FALSE, FALSE)})

ForwardStep ==
    \/ LoopTest
    \/ CheckPaused
    \/ Drive
    \/ Sleep
    \/ StopWheels
    \/ TeleportToDestination

NextForward ==
    \/ MoveForwardCall
    \/ ForwardStep
    \/ PausedWait
    \/ Integrate
    \/ TogglePause

\* the user resumes a paused run
Resume == paused /\ TogglePause

SpecForwardFair ==
    /\ InitForward
    /\ [][NextForward]_vars
    /\ WF_vars(ForwardStep)
    /\ WF_vars(Resume)
    /\ SF_vars(PausedWait)
    /\ SF_vars(Integrate)

\* how far past the destination the mouse is, along the heading the call selected
PastDestination ==
    LET v == HeadingVector(CanonicalAngle(heading))
    IN  (translation[1] - dest.t[1]) * v[1] + (translation[2] - dest.t[2]) * v[2]

\* C16: a moveForward that set out returns.  Its loop ends at the first test that
\* finds the mouse at or past the destination along the axis of travel, however far
\* past; until then it goes on.  The call commands only forward or zero wheel speeds,
\* and once its loop has ended the loop is not entered again.
C16_MoveForwardTerminates ==
    /\ InMotion ~> (pc = "idle")
    /\ [][/\ (pc = "loop" /\ pc' # pc) => (pc' = "stop" <=> PastDestination >= 0)
          /\ (InMotion /\ wheels' # wheels) => wheels' \in {Forward, Stopped}
          /\ pc \in {"stop", "teleport"} => pc' \in {"stop", "teleport", "idle"}]_vars

\* a moveForward that moved the mouse has returned
C16_Witness ==
    /\ pc = "idle"
    /\ lastCall = "moveForward"
    /\ mon.tele = 1
    /\ mon.exitSeen
    /\ translation # callStart.t

\* --------------------------------------------------------------- C17
\* the angle the turn in progress has swept so far, in the direction it commands
Swept ==
    IF Top = "turnRight" THEN Norm(Norm(dest.r + 90) - rotation)
    ELSE Norm(rotation - Norm(dest.r - 90))

\* C17: a turnRight returns with the heading one step clockwise of the heading it
\* started with, a turnLeft one step counter-clockwise, at the translation the call
\* started at and at the canonical angle of the new heading; and, while the mouse is
\* within half a turn of where it started, the loop of a turn ends at the first test
\* that finds at least 90 degrees swept in the commanded direction.
C17_QuarterTurns ==
    [][/\ Returns("turnRight")
            => /\ getDiscretizedRotation' = RightOf(DiscretizedRotationOf(callStart.r))
               /\ rotation' = CanonicalAngle(RightOf(DiscretizedRotationOf(callStart.r)))
               /\ translation' = callStart.t
       /\ Returns("turnLeft")
            => /\ getDiscretizedRotation' = LeftOf(DiscretizedRotationOf(callStart.r))
               /\ rotation' = CanonicalAngle(LeftOf(DiscretizedRotationOf(callStart.r)))
               /\ translation' = callStart.t
       /\ (pc = "loop" /\ pc' # pc /\ Top \in {"turnRight", "turnLeft"} /\ Swept < 180)
            => (pc' = "stop" <=> Swept >= 90)]_vars

\* --------------------------------------------------------------- C18
\* annotation calls at cells inside and outside the maze, and wall queries and
\* moves of a mouse that can walk off a maze without a border
InitBounds ==
    InitWith({"DISCRETE"}, {Maze(FALSE, FALSE, FALSE)}, {0, 180},
             {Flags(TRUE, onRead, fog) : onRead, fog \in BOOLEAN})

NextBounds ==
    \/ AnnotationCall
    \/ \E fn \in {"wallFront", "wallRight", "wallLeft"} : WallQuery(fn)
    \/ MoveForwardCall
    \/ ForwardStep
    \/ Integrate

SpecBounds == InitBounds /\ [][NextBounds]_vars

\* the tiles around the maze that the overlay could be addressed at
OutsideCells == GraphicCells \ Cells

\* C18: no step writes colour, fogginess, text or a declared wall of a tile outside
\* the maze, directly or as the opposing half of a declared wall; the coloured-tile
\* set holds cells of the maze only; and a wall query or move made while the mouse is
\* outside the maze ends the run at the assertion without reading or declaring a wall.
C18_BoundsBeforeAccess ==
    [][/\ \A c \in OutsideCells :
            /\ gColor'[c] = gColor[c]
            /\ gFog'[c] = gFog[c]
            /\ gText'[c] = gText[c]
            /\ gWalls'[c] = gWalls[c]
       /\ tilesWithColor' \subseteq Cells
       /\ (/\ getDiscretizedTranslation \notin Cells
           /\ MoveForwardCall \/ \E fn \in {"wallFront", "wallRight", "wallLeft"} : WallQuery(fn))
            => (~running' /\ result' = "none" /\ UNCHANGED graphicVars)]_vars

\* the overlay has been written, also through a wall's opposing half, and a query
\* made outside the maze has ended the run
C18_Witness ==
    /\ ~running
    /\ getDiscretizedTranslation \notin Cells
    /\ annotations = MaxAnnotations
    /\ \E c \in Cells : \E d \in Directions :
          /\ Neighbour(c, d) \in Cells
          /\ gWalls[c][d] # "undeclared"
          /\ gWalls[Neighbour(c, d)][Opposite(d)] # "undeclared"

\* --------------------------------------------------------------- C19
ColourOperations == {"setTileColor", "clearTileColor", "clearAllTileColor"}

\* C19: every tile the overlay shows in another colour than the base colour is a
\* cell of the maze in the coloured-tile set; a valid setTileColor adds its cell to
\* the set and colours it, a valid clearTileColor removes its cell and resets it,
\* an invalid one of either changes neither the set nor the overlay, and no other
\* call but clearAllTileColor changes the set; clearAllTileColor resets every cell of
\* the set to the base colour and empties the set, after which no tile is coloured;
\* and a colour operation leaves the pose, the wheel speeds, the crashed flag and
\* the maze walls as they were.
C19_ColouredTileSet ==
    /\ [](/\ tilesWithColor \subseteq Cells
          /\ \A c \in GraphicCells : gColor[c] # BaseColor => c \in tilesWithColor
          /\ lastCall = "clearAllTileColor"
                => (tilesWithColor = {} /\ \A c \in GraphicCells : gColor[c] = BaseColor))
    /\ [][/\ lastCall' = "setTileColor" =>
                \A site \in TileSites, c \in ColorInputs :
                    SetTileColor(site[1], site[2], c) =>
                        IF site \in Cells /\ c # "?"
                        THEN /\ tilesWithColor' = tilesWithColor \cup {site}
                             /\ gColor' = [gColor EXCEPT ![site] = c]
                        ELSE UNCHANGED <<tilesWithColor, gColor>>
          /\ lastCall' = "clearTileColor" =>
                \A site \in TileSites :
                    ClearTileColor(site[1], site[2]) =>
                        IF site \in Cells
                        THEN /\ tilesWithColor' = tilesWithColor \ {site}
                             /\ gColor' = [gColor EXCEPT ![site] = BaseColor]
                        ELSE UNCHANGED <<tilesWithColor, gColor>>
          /\ ClearAllTileColor =>
                /\ tilesWithColor' = {}
                /\ \A c \in GraphicCells :
                      gColor'[c] = IF c \in tilesWithColor THEN BaseColor ELSE gColor[c]
          /\ (tilesWithColor' # tilesWithColor \/ gColor' # gColor)
                => (pc = "idle" /\ lastCall' \in ColourOperations)
          /\ (pc = "idle" /\ pc' = "idle" /\ lastCall' \in ColourOperations)
                => UNCHANGED <<translation, rotation, wheels, crashed, walls>>]_vars

\* tiles were coloured and a clearAllTileColor that had tiles to reset has run
C19_Witness ==
    /\ lastCall = "clearAllTileColor"
    /\ annotations > MaxAnnotations - 1
    /\ tilesWithColor = {}
    /\ \A c \in Cells : gColor[c] = BaseColor

\* --------------------------------------------------------------- C20
\* C20: when a motion function that ran its loop returns, to the algorithm or to
\* turnAround, the wheel speed command it issued last is (0, 0) and the wheels are
\* at rest; between the calls of a discrete run the wheels are at rest; and a
\* moveForward that finds a wall in front commands no wheel speeds and leaves them
\* as they were.
C20_WheelsAtRestOnReturn ==
    /\ []((interfaceType = "DISCRETE" /\ pc \in {"idle", "call2"}) => wheels = Stopped)
    /\ [][/\ (pc = "teleport" /\ pc' \in {"idle", "call2"})
                => (mon.last = "zero" /\ wheels = Stopped /\ wheels' = Stopped)
          /\ (MoveForwardCall /\ running' /\ MoveForwardBlocked)
                => (wheels' = wheels /\ mon'.last = "none" /\ pc' = "idle")]_vars

\* in a run where a moveForward has hit a wall, a turnAround has returned after
\* its two turns
C20_Witness ==
    /\ pc = "idle"
    /\ lastCall = "turnAround"
    /\ mon.last = "teleport"
    /\ rotation = Norm(callStart.r + 180)
    /\ wheels = Stopped
    /\ crashed

\* --------------------------------------------------------------- C21
\* every border tile of the maze m has a wall on its outward side
Enclosed(m) == \A c \in Cells, d \in Directions : Neighbour(c, d) \notin Cells => m[c][d]

\* discrete runs in the enclosed mazes of the family, from the initial tile
InitEnclosed ==
    InitWith({"DISCRETE"}, {m \in Mazes : Enclosed(m)}, CanonicalAngles,
             {Flags(FALSE, FALSE, FALSE)})

NextEnclosed == DiscreteCall \/ MotionStep \/ Simulation

SpecEnclosed == InitEnclosed /\ [][NextEnclosed]_vars

\* C21: in an enclosed maze, between the calls of a discrete run the mouse is in a
\* cell of the maze, and no run ends at the bounds assertion of isWall.
C21_StaysInsideMaze ==
    /\ pc \in {"idle", "call2"} => getDiscretizedTranslation \in Cells
    /\ report.fn # "isWall"

\* the mouse has left the initial tile and run into the border of the maze
C21_Witness ==
    /\ running
    /\ pc = "idle"
    /\ crashed
    /\ lastCall = "moveForward"
    /\ getDiscretizedTranslation # DiscretizedTranslationOf(InitialTranslation)
    /\ Neighbour(getDiscretizedTranslation, getDiscretizedRotation) \notin Cells

\* --------------------------------------------------------------- C22
\* observed discrete runs of turns and wall queries, from every tile and heading, in
\* a maze with a border and walls between columns and in one with walls between rows
InitTurns ==
    InitObserved({"DISCRETE"}, {Maze(TRUE, TRUE, FALSE), Maze(FALSE, FALSE, TRUE)},
                 {CentreOf(c) : c \in Cells}, CanonicalAngles,
                 {Flags(FALSE, FALSE, FALSE)}, {NoTurns})

NextTurns ==
    \/ \E fn \in {"turnRight", "turnLeft"} : TurnCall(fn)
    \/ \E fn \in {"wallFront", "wallRight", "wallLeft"} : WallQuery(fn)
    \/ ForwardStep
    \/ Integrate

SpecTurns == InitTurns /\ [][NextTurns]_vars

LastTurn == trail.turns[Len(trail.turns)]

\* C22: a wallFront() asked after a turnRight returns what wallRight() returned
\* before that turn, and after a turnLeft what wallLeft() returned before it; after
\* a turnLeft followed by a turnRight, and after four turnRight in a row, the mouse
\* is at the heading and the translation it had before them.
C22_QueriesAndTurnsAgree ==
    /\ [][(WallQuery("wallFront") /\ trail.turns # <<>>)
            => /\ (LastTurn = "turnRight" /\ trail.rightBefore # "none")
                    => result' = trail.rightBefore
               /\ (LastTurn = "turnLeft" /\ trail.leftBefore # "none")
                    => result' = trail.leftBefore]_vars
    /\ []((pc = "idle" /\ trail.turns \in TurnPatterns)
            => (rotation = trail.origin.r /\ translation = trail.origin.t))

\* four turnRight in a row have returned, wallRight() was asked before the last of
\* them and wallFront() after it, and there was a wall
C22_Witness ==
    /\ pc = "idle"
    /\ trail.turns = <<"turnRight", "turnRight", "turnRight", "turnRight">>
    /\ trail.rightBefore = "true"
    /\ lastCall = "wallFront"
    /\ result = "true"
    /\ rotation = trail.origin.r

\* --------------------------------------------------------------- C23
\* runs in either mode, from every heading, that move into walls, drive the wheels,
\* colour tiles and reset the position
InitReset ==
    InitWith({"DISCRETE", "CONTINUOUS"}, {OpenMaze}, CanonicalAngles,
             {Flags(FALSE, FALSE, FALSE)})

NextReset ==
    \/ MoveForwardCall
    \/ ForwardStep
    \/ \E w \in {Stopped, Forward, SpinRight} : SetWheelSpeeds(w)
    \/ \E site \in {<<0, 0>>, <<-1, 0>>} : SetTileColor(site[1], site[2], "r")
    \/ ResetPosition
    \/ Integrate

SpecReset == InitReset /\ [][NextReset]_vars

\* C23: a resetPosition leaves the mouse at its initial translation with rotation 0,
\* heading NORTH, by one teleport, and changes nothing else: not the crashed flag,
\* the wheel speeds, the overlay, the coloured-tile set, the maze, the mode or
\* whether the run goes on.
C23_ResetPositionOnlyTeleports ==
    [][(pc = "idle" /\ lastCall' = "resetPosition" /\ ResetPosition)
         => /\ translation' = InitialTranslation
            /\ rotation' = 0
            /\ getDiscretizedRotation' = "NORTH"
            /\ getDiscretizedTranslation' = DiscretizedTranslationOf(InitialTranslation)
            /\ teleports' = <<[t |-> InitialTranslation, r |-> 0]>>
            /\ mon'.last = "none"
            /\ UNCHANGED <<crashed, wheels, graphicVars, walls>>
            /\ UNCHANGED <<interfaceType, running, report, paused, inputButtons>>]_vars

\* resetPosition has returned in a continuous run with the wheels driven, a tile
\* coloured and the mouse brought back from another heading
C23_Witness ==
    /\ lastCall = "resetPosition"
    /\ interfaceType = "CONTINUOUS"
    /\ wheels # Stopped
    /\ tilesWithColor # {}
    /\ translation = InitialTranslation
    /\ rotation = 0
    /\ teleports = <<[t |-> InitialTranslation, r |-> 0]>>

====
